---- MODULE Spec2Model ----
(***************************************************************************)
(* A model of src/WifiMonitor.py: the WiFiMonitor sampling session         *)
(* (start_monitoring and the functions it calls) as a state machine, and   *)
(* its pure parts (the parsers, detect_glitches, generate_summary) as      *)
(* operators.                                                              *)
(*                                                                         *)
(* Conventions.                                                            *)
(*  - Time is in whole seconds.  Only the external commands and time.sleep *)
(*    take time; every other statement is instantaneous.                   *)
(*  - The text a regular expression captures is a sequence of one-char     *)
(*    strings; <<>> stands for "the pattern did not match" (every pattern  *)
(*    of the program that is modelled this way needs at least one char).   *)
(*  - Floats carry whole values in the model's inputs, and a mean is an    *)
(*    exact reduced fraction [num, den].                                   *)
(***************************************************************************)
EXTENDS Integers, Sequences, FiniteSets, TLC

VARIABLES
    \* configuration, fixed by __init__
    duration_seconds, ping_interval,
    glitch_threshold_latency_ms, glitch_threshold_packet_loss,
    glitch_threshold_rssi_dbm,
    \* fields of the monitor
    results, running, start_time,
    \* locals of start_monitoring / collect_data_point
    end_time, interval_counter, current_time, wifi_info, data_point,
    wake_time,
    \* control: position of the main thread and the exceptions raised so far
    \* (a later one is raised while the earlier one is being handled)
    pc, exc,
    \* the world: clock, command outputs and disk, output file, printed summary
    now, env, env_changes, csv_file, summary,
    \* history (never read by the program)
    cmdlog, ticklog, flushlog, summary_calls, stop_req

cfgVars == <<duration_seconds, ping_interval, glitch_threshold_latency_ms,
             glitch_threshold_packet_loss, glitch_threshold_rssi_dbm>>

vars == <<duration_seconds, ping_interval, glitch_threshold_latency_ms,
          glitch_threshold_packet_loss, glitch_threshold_rssi_dbm,
          results, running, start_time, end_time, interval_counter,
          current_time, wifi_info, data_point, wake_time, pc, exc,
          now, env, env_changes, csv_file, summary,
          cmdlog, ticklog, flushlog, summary_calls, stop_req>>

(***************************************************************************)
(* Bounds of the model and constants of the program.                       *)
(***************************************************************************)
\* how often the command outputs / the disk may change during one session
MaxEnvChanges == 1
\* longest results sequence handed to generate_summary on its own
MaxSummaryLen == 3
\* longest results sequence of the signal-strength scenarios
MaxRssiLen == 4
\* longest results sequence handed to save_to_csv on its own
MaxSaveLen == 2
\* how many times in a row save_to_csv is called on its own
MaxSaveCalls == 2

\* __init__ defaults
DefaultLatencyThreshold == 100
DefaultPacketLossThreshold == 10
DefaultRssiThreshold == -70
DefaultPingInterval == 5
\* start_monitoring: "if interval_counter % 12 == 0: self.save_to_csv()"
SavePeriod == 12
\* collect_data_point: packet_loss_percent of the synthesized probe result
NoLinkPacketLoss == 100

\* duration_seconds = duration_minutes * 60: half a minute (the 30 s session
\* of the specification) and one minute
Durations == {30, 60}
Intervals == {DefaultPingInterval, 10}

(***************************************************************************)
(* int() and float() on captured text.                                     *)
(***************************************************************************)
Digits == {"0", "1", "2", "3", "4", "5", "6", "7", "8", "9"}

DigitValue(c) ==
    CASE c = "0" -> 0 [] c = "1" -> 1 [] c = "2" -> 2 [] c = "3" -> 3
      [] c = "4" -> 4 [] c = "5" -> 5 [] c = "6" -> 6 [] c = "7" -> 7
      [] c = "8" -> 8 [] c = "9" -> 9

RECURSIVE DecimalValue(_)
DecimalValue(s) ==
    IF s = <<>> THEN 0
    ELSE 10 * DecimalValue(SubSeq(s, 1, Len(s) - 1)) + DigitValue(s[Len(s)])

\* int(text) for text matched by [-\d]+ : an optional sign, then digits only
IntOk(tok) ==
    LET body == IF tok # <<>> /\ tok[1] = "-" THEN Tail(tok) ELSE tok
    IN  body # <<>> /\ \A i \in 1..Len(body) : body[i] \in Digits

IntValue(tok) ==
    IF tok[1] = "-" THEN 0 - DecimalValue(Tail(tok)) ELSE DecimalValue(tok)

\* float(text) for text matched by [\d.]+ : at most one point, some digit
FloatOk(tok) ==
    /\ Cardinality({i \in 1..Len(tok) : tok[i] = "."}) <= 1
    /\ \E i \in 1..Len(tok) : tok[i] \in Digits

\* the value of a well-formed float whose fractional digits are zero
FloatValue(tok) ==
    LET points == {i \in 1..Len(tok) : tok[i] = "."}
        whole  == IF points = {} THEN tok
                  ELSE SubSeq(tok, 1, (CHOOSE i \in points : TRUE) - 1)
    IN  DecimalValue(whole)

(***************************************************************************)
(* The environment: what the external commands print, how long they take,  *)
(* and whether the output file can be written.                             *)
(*   primary : networksetup -getairportnetwork, "Current Wi-Fi Network: "  *)
(*   wd      : wdutil info, the text captured after each label             *)
(*   ping    : the statistics footer, "N% packet loss", "= a/b/c/d"        *)
(***************************************************************************)
NoWd == [ssid |-> "", rssi |-> <<>>, signal |-> <<>>, noise |-> <<>>,
         txrate |-> <<>>, lasttx |-> <<>>]
NoPing == [footer |-> FALSE, loss |-> <<>>, rtt |-> <<>>]

GoodWd == [ssid |-> "home", rssi |-> <<"-", "6", "5">>, signal |-> <<>>,
           noise |-> <<"-", "9", "0">>, txrate |-> <<"8", "6", "6">>,
           lasttx |-> <<>>]
GoodPing == [footer |-> TRUE, loss |-> <<0>>, rtt |-> <<10, 12, 15, 2>>]

EnvGood ==
    [primary |-> [matched |-> TRUE, ssid |-> "home"], wd |-> GoodWd,
     ping |-> GoodPing, linkTime |-> 0, pingTime |-> 0, disk |-> "ok"]
\* no association; every command prints nothing
EnvDown ==
    [primary |-> [matched |-> FALSE, ssid |-> ""], wd |-> NoWd,
     ping |-> NoPing, linkTime |-> 0, pingTime |-> 0, disk |-> "ok"]
\* association seen by wdutil only, fallback labels, every probe lost, slow
EnvWeak ==
    [primary |-> [matched |-> FALSE, ssid |-> ""],
     wd |-> [ssid |-> "cafe", rssi |-> <<>>, signal |-> <<"-", "7", "5">>,
             noise |-> <<>>, txrate |-> <<>>, lasttx |-> <<"5", "4">>],
     ping |-> [footer |-> TRUE, loss |-> <<100>>, rtt |-> <<>>],
     linkTime |-> 1, pingTime |-> 6, disk |-> "ok"]
\* slow replies, nothing else wrong
EnvSlow ==
    [primary |-> [matched |-> TRUE, ssid |-> "home"], wd |-> GoodWd,
     ping |-> [footer |-> TRUE, loss |-> <<0>>, rtt |-> <<90, 150, 300, 40>>],
     linkTime |-> 1, pingTime |-> 1, disk |-> "ok"]
\* weak signal, some probes lost
EnvLossy ==
    [primary |-> [matched |-> TRUE, ssid |-> "home"],
     wd |-> [GoodWd EXCEPT !.rssi = <<"-", "7", "2">>],
     ping |-> [footer |-> TRUE, loss |-> <<20>>, rtt |-> <<10, 12, 15, 2>>],
     linkTime |-> 0, pingTime |-> 1, disk |-> "ok"]
\* weak signal only
EnvFar ==
    [EnvGood EXCEPT !.wd = [GoodWd EXCEPT !.rssi = <<"-", "8", "0">>]]
\* the ping command fails: no footer
EnvNoPing == [EnvGood EXCEPT !.ping = NoPing]
\* "RSSI : -" : the label matches, the value is no number
EnvBadRssi == [EnvGood EXCEPT !.wd = [GoodWd EXCEPT !.rssi = <<"-">>]]
\* "Tx Rate : 1.2.3 Mbps"
EnvBadTx ==
    [EnvGood EXCEPT !.wd = [GoodWd EXCEPT !.txrate = <<"1", ".", "2", ".", "3">>]]
\* the output file cannot be written
EnvDiskBad == [EnvGood EXCEPT !.disk = "fails"]

\* the environments a session runs in, and those one collection is tried on
Envs == {EnvGood, EnvDown, EnvWeak, EnvSlow, EnvBadRssi, EnvDiskBad}
AllEnvs == Envs \cup {EnvLossy, EnvFar, EnvNoPing, EnvBadTx}

(***************************************************************************)
(* get_current_wifi_info, ping_test                                        *)
(***************************************************************************)
\* the text int() is applied to for rssi_dbm: "RSSI", else "Signal"
RssiText(wd) == IF wd.rssi # <<>> THEN wd.rssi ELSE wd.signal
\* the text float() is applied to for tx_rate_mbps: "Tx Rate", else "lastTxRate"
TxText(wd) == IF wd.txrate # <<>> THEN wd.txrate ELSE wd.lasttx

\* wdutil asked only when networksetup reports no network
commands_run_FallbackOnly(viaPrimary, connected) ==
    <<"listallhardwareports", "getairportnetwork">>
    \o (IF ~viaPrimary THEN <<"wdutil">> ELSE <<>>)

\* the commands of one get_current_wifi_info call, in order: get_wifi_interface,
\* networksetup -getairportnetwork, "sudo wdutil info" if that found no network,
\* and "sudo wdutil info" (again) if connected by either
commands_run(viaPrimary, connected) ==
    <<"listallhardwareports", "getairportnetwork">>
    \o (IF ~viaPrimary THEN <<"wdutil">> ELSE <<>>)
    \o (IF connected THEN <<"wdutil">> ELSE <<>>)

\* result of get_current_wifi_info at time t: the info dictionary, whether a
\* conversion raised ValueError, and the commands that were run
get_current_wifi_info(e, t) ==
    LET viaPrimary == e.primary.matched
        viaWdutil  == ~viaPrimary /\ e.wd.ssid # ""
        connected  == viaPrimary \/ viaWdutil
        ssid       == IF viaPrimary THEN e.primary.ssid
                      ELSE IF viaWdutil THEN e.wd.ssid ELSE ""
        cmds       == commands_run(viaPrimary, connected)
        raised     == connected /\
                      \/ RssiText(e.wd) # <<>> /\ ~IntOk(RssiText(e.wd))
                      \/ e.wd.noise # <<>> /\ ~IntOk(e.wd.noise)
                      \/ TxText(e.wd) # <<>> /\ ~FloatOk(TxText(e.wd))
        field(tok, ok, val) ==
            IF connected /\ tok # <<>> /\ ok THEN val ELSE 0
    IN  [raised |-> raised,
         cmds   |-> cmds,
         info   |-> [timestamp    |-> t,
                     ssid         |-> ssid,
                     rssi_dbm     |-> field(RssiText(e.wd), IntOk(RssiText(e.wd)),
                                            IntValue(RssiText(e.wd))),
                     noise_dbm    |-> field(e.wd.noise, IntOk(e.wd.noise),
                                            IntValue(e.wd.noise)),
                     tx_rate_mbps |-> field(TxText(e.wd), FloatOk(TxText(e.wd)),
                                            FloatValue(TxText(e.wd))),
                     connected    |-> connected]]

ping_test(e) ==
    LET result == [min_latency_ms |-> 0, avg_latency_ms |-> 0,
                   max_latency_ms |-> 0, stddev_latency_ms |-> 0,
                   packet_loss_percent |-> 0, success |-> FALSE]
        withLoss == IF e.ping.loss # <<>>
                    THEN [result EXCEPT !.packet_loss_percent = e.ping.loss[1]]
                    ELSE result
    IN  IF ~e.ping.footer THEN result
        ELSE IF e.ping.rtt # <<>>
        THEN [withLoss EXCEPT !.min_latency_ms = e.ping.rtt[1],
                              !.avg_latency_ms = e.ping.rtt[2],
                              !.max_latency_ms = e.ping.rtt[3],
                              !.stddev_latency_ms = e.ping.rtt[4],
                              !.success = TRUE]
        ELSE withLoss

(***************************************************************************)
(* detect_glitches, collect_data_point                                     *)
(***************************************************************************)
LatencyGlitch(data) ==
    data.ping_success /\ data.avg_latency_ms > glitch_threshold_latency_ms

PacketLossGlitch_OnlyWhenConnected(data) ==
    data.connected /\ data.packet_loss_percent > glitch_threshold_packet_loss

PacketLossGlitch(data) ==
    data.packet_loss_percent > glitch_threshold_packet_loss

SignalStrengthGlitch(data) ==
    data.rssi_dbm < glitch_threshold_rssi_dbm

ConnectionGlitch(data) == ~data.connected

AnyGlitch_WithoutLatency(g) ==
    g.packet_loss_glitch \/ g.signal_strength_glitch \/ g.connection_glitch

\* any([...]) over the four flags already set
AnyGlitch(g) ==
    \/ g.latency_glitch
    \/ g.packet_loss_glitch
    \/ g.signal_strength_glitch
    \/ g.connection_glitch

detect_glitches(data) ==
    LET glitches == [latency_glitch         |-> LatencyGlitch(data),
                     packet_loss_glitch     |-> PacketLossGlitch(data),
                     signal_strength_glitch |-> SignalStrengthGlitch(data),
                     connection_glitch      |-> ConnectionGlitch(data),
                     any_glitch             |-> FALSE]
    IN  [glitches EXCEPT !.any_glitch = AnyGlitch(glitches)]

\* the probe result collect_data_point makes up when the link is down
NoLinkPingResult ==
    [min_latency_ms |-> 0, avg_latency_ms |-> 0, max_latency_ms |-> 0,
     stddev_latency_ms |-> 0, packet_loss_percent |-> NoLinkPacketLoss,
     success |-> FALSE]

PingInvoked_Always(info) == TRUE

\* whether collect_data_point runs ping_test
PingInvoked(info) == info.connected

\* the data_point dictionary before the glitch flags are added
MergeDataPoint(info, ping_results) ==
    [timestamp           |-> info.timestamp,
     ssid                |-> info.ssid,
     connected           |-> info.connected,
     rssi_dbm            |-> info.rssi_dbm,
     noise_dbm           |-> info.noise_dbm,
     tx_rate_mbps        |-> info.tx_rate_mbps,
     ping_success        |-> ping_results.success,
     min_latency_ms      |-> ping_results.min_latency_ms,
     avg_latency_ms      |-> ping_results.avg_latency_ms,
     max_latency_ms      |-> ping_results.max_latency_ms,
     stddev_latency_ms   |-> ping_results.stddev_latency_ms,
     packet_loss_percent |-> ping_results.packet_loss_percent]

\* data_point.update(glitches)
UpdateWithGlitches(data, glitches) ==
    [f \in DOMAIN data \cup DOMAIN glitches |->
        IF f \in DOMAIN glitches THEN glitches[f] ELSE data[f]]

\* collect_data_point, given the link info already obtained
collect_data_point(info, e) ==
    LET ping_results == IF PingInvoked(info) THEN ping_test(e)
                        ELSE NoLinkPingResult
        data == MergeDataPoint(info, ping_results)
    IN  UpdateWithGlitches(data, detect_glitches(data))

(***************************************************************************)
(* save_to_csv: the outcomes of one call, each the file it leaves and      *)
(* whether it raised.  On a bad disk either open fails, which leaves the   *)
(* file as it was, or a write fails, which leaves the truncated file with  *)
(* a proper prefix of the rows.                                            *)
(***************************************************************************)
NoFile == [exists |-> FALSE, header |-> {}, rows |-> <<>>]

\* no early return: an empty results list leaves an empty file
save_to_csv_CreatesEmpty(res, file, disk) ==
    IF disk = "ok"
    THEN {[raised |-> FALSE,
           file |-> [exists |-> TRUE,
                     header |-> IF res = <<>> THEN {} ELSE DOMAIN res[1],
                     rows |-> res]]}
    ELSE {[raised |-> TRUE, file |-> file]}

\* a file opened for appending: the rows written are added to those it holds
save_to_csv_Appends(res, file, disk) ==
    IF res = <<>> THEN {[raised |-> FALSE, file |-> file]}
    ELSE IF disk = "ok"
    THEN {[raised |-> FALSE,
           file |-> [exists |-> TRUE, header |-> DOMAIN res[1],
                     rows |-> file.rows \o res]]}
    ELSE {[raised |-> TRUE, file |-> file]}

save_to_csv(res, file, disk) ==
    IF res = <<>> THEN {[raised |-> FALSE, file |-> file]}
    ELSE IF disk = "ok"
    THEN {[raised |-> FALSE,
           file |-> [exists |-> TRUE, header |-> DOMAIN res[1], rows |-> res]]}
    ELSE {[raised |-> TRUE, file |-> file]} \cup
         {[raised |-> TRUE,
           file |-> [exists |-> TRUE, header |-> DOMAIN res[1],
                     rows |-> SubSeq(res, 1, k)]] : k \in {0, Len(res) - 1}}

(***************************************************************************)
(* generate_summary                                                        *)
(***************************************************************************)
Abs(n) == IF n < 0 THEN 0 - n ELSE n

RECURSIVE Gcd(_, _)
Gcd(a, b) == IF b = 0 THEN a ELSE Gcd(b, a % b)

\* the fraction n/d (d > 0) in lowest terms
Fraction(n, d) ==
    LET g == Gcd(Abs(n), d) IN [num |-> n \div g, den |-> d \div g]

RECURSIVE SumOf(_, _)
SumOf(s, f) == IF s = <<>> THEN 0 ELSE s[1][f] + SumOf(Tail(s), f)

\* [point for point in points if point[f]]
RECURSIVE Where(_, _)
Where(s, f) ==
    IF s = <<>> THEN <<>>
    ELSE (IF s[1][f] THEN <<s[1]>> ELSE <<>>) \o Where(Tail(s), f)

\* statistics.mean(point[f] for point in points), points not empty
Mean(points, f) == Fraction(SumOf(points, f), Len(points))

AvgRssi_OverAll(res) ==
    IF Where(res, "connected") # <<>> THEN Mean(res, "rssi_dbm")
    ELSE Fraction(0, 1)

\* the "Calculate averages" block of generate_summary, one value at a time
AvgRssi(res) ==
    LET connected_points == Where(res, "connected")
    IN  IF connected_points # <<>> THEN Mean(connected_points, "rssi_dbm")
        ELSE Fraction(0, 1)

AvgLatency_OverConnected(res) ==
    LET connected_points == Where(res, "connected")
    IN  IF connected_points # <<>> /\ Where(res, "ping_success") # <<>>
        THEN Mean(connected_points, "avg_latency_ms")
        ELSE Fraction(0, 1)

AvgLatency(res) ==
    LET connected_points == Where(res, "connected")
        ping_success_points == Where(res, "ping_success")
    IN  IF connected_points # <<>>
        THEN IF ping_success_points # <<>>
             THEN Mean(ping_success_points, "avg_latency_ms")
             ELSE Fraction(0, 1)
        ELSE Fraction(0, 1)

AvgPacketLoss_OverAll(res) ==
    IF Where(res, "connected") # <<>> /\ Where(res, "ping_success") # <<>>
    THEN Mean(res, "packet_loss_percent")
    ELSE Fraction(100, 1)

AvgPacketLoss(res) ==
    LET connected_points == Where(res, "connected")
        ping_success_points == Where(res, "ping_success")
    IN  IF connected_points # <<>>
        THEN IF ping_success_points # <<>>
             THEN Mean(connected_points, "packet_loss_percent")
             ELSE Fraction(100, 1)
        ELSE Fraction(100, 1)

NoSummary == [kind |-> "none"]

generate_summary(res) ==
    IF res = <<>> THEN [kind |-> "nodata"]
    ELSE
    LET total_samples == Len(res)
        glitch_count == Len(Where(res, "any_glitch"))
        connected_points == Where(res, "connected")
    IN  [kind |-> "stats",
         first_timestamp |-> res[1].timestamp,
         last_timestamp |-> res[Len(res)].timestamp,
         total_samples |-> total_samples,
         glitch_count |-> glitch_count,
         glitch_percentage |-> Fraction(glitch_count * 100, total_samples),
         connected_samples |-> Len(connected_points),
         connected_percentage |->
             Fraction(Len(connected_points) * 100, total_samples),
         avg_rssi |-> AvgRssi(res),
         avg_latency |-> AvgLatency(res),
         avg_packet_loss |-> AvgPacketLoss(res)]

(***************************************************************************)
(* The session: __init__, start_monitoring, signal_handler.                *)
(*                                                                         *)
(*   pc = "idle"            constructed, start_monitoring not called       *)
(*        "test"            at the while condition                         *)
(*        "wifi"            in collect_data_point, before the link query   *)
(*        "ping"            in collect_data_point, before the probe        *)
(*        "pace"            sample appended, before the pacing computation *)
(*        "sleeping"        inside time.sleep                              *)
(*        "finally_save"    in the finally block, before save_to_csv       *)
(*        "finally_summary" in the finally block, before generate_summary  *)
(*        "done"            start_monitoring has returned or raised        *)
(***************************************************************************)
NoInfo == [kind |-> "none"]
NoStop == [requested |-> FALSE, len |-> 0, inflight |-> FALSE, due |-> 0]

\* everything except the configuration, results, data_point, pc and env
InitRest ==
    /\ running = FALSE
    /\ start_time = 0
    /\ end_time = 0
    /\ interval_counter = 0
    /\ current_time = 0
    /\ wifi_info = NoInfo
    /\ wake_time = 0
    /\ exc = <<>>
    /\ now = 0
    /\ env_changes = 0
    /\ csv_file = NoFile
    /\ summary = NoSummary
    /\ cmdlog = <<>>
    /\ ticklog = <<>>
    /\ flushlog = <<>>
    /\ summary_calls = 0
    /\ stop_req = NoStop

Init ==
    /\ duration_seconds \in Durations
    /\ ping_interval \in Intervals
    /\ glitch_threshold_latency_ms = DefaultLatencyThreshold
    /\ glitch_threshold_packet_loss = DefaultPacketLossThreshold
    /\ glitch_threshold_rssi_dbm = DefaultRssiThreshold
    /\ results = <<>>
    /\ data_point = NoInfo
    /\ pc = "idle"
    /\ env \in Envs
    /\ InitRest

\* start_monitoring up to the loop
Start ==
    /\ pc = "idle"
    /\ running' = TRUE
    /\ start_time' = now
    /\ end_time' = now + duration_seconds
    /\ interval_counter' = 0
    /\ pc' = "test"
    /\ UNCHANGED <<cfgVars, results, current_time, wifi_info, data_point,
                   wake_time, exc, now, env, env_changes, csv_file, summary,
                   cmdlog, ticklog, flushlog, summary_calls, stop_req>>

LoopCondition_IgnoresStop == now < end_time

LoopCondition_Inclusive == running /\ now <= end_time

\* while self.running and time.time() < end_time
LoopCondition == running /\ now < end_time

\* the while condition, then current_time = time.time()
LoopTest ==
    /\ pc = "test"
    /\ IF LoopCondition
       THEN /\ pc' = "wifi"
            /\ current_time' = now
            /\ cmdlog' = <<>>
       ELSE /\ pc' = "finally_save"
            /\ UNCHANGED <<current_time, cmdlog>>
    /\ UNCHANGED <<cfgVars, results, running, start_time, end_time,
                   interval_counter, wifi_info, data_point, wake_time, exc,
                   now, env, env_changes, csv_file, summary, ticklog, flushlog,
                   summary_calls, stop_req>>

\* collect_data_point: wifi_info = self.get_current_wifi_info()
GetWifiInfo ==
    /\ pc = "wifi"
    /\ LET r == get_current_wifi_info(env, now) IN
        /\ cmdlog' = cmdlog \o r.cmds
        /\ now' = now + env.linkTime
        /\ IF r.raised
           THEN /\ exc' = Append(exc, "ValueError")
                /\ pc' = "finally_save"
                /\ UNCHANGED wifi_info
           ELSE /\ wifi_info' = r.info
                /\ pc' = "ping"
                /\ UNCHANGED exc
    /\ UNCHANGED <<cfgVars, results, running, start_time, end_time,
                   interval_counter, current_time, data_point, wake_time,
                   env, env_changes, csv_file, summary, ticklog, flushlog,
                   summary_calls, stop_req>>

\* no save inside the loop
PeriodicSaveDue_Never(counter) == FALSE

\* the period of the column header, taken for the period of the save
PeriodicSaveDue_EveryTenth(counter) == counter % 10 = 0

\* if interval_counter % 12 == 0
PeriodicSaveDue(counter) == counter % SavePeriod = 0

\* a list that takes the new sample at its head
results_append_AtHead(res, point) == <<point>> \o res

\* self.results.append(data_point)
results_append(res, point) == Append(res, point)

\* the rest of collect_data_point, results.append, interval_counter += 1 and
\* the periodic save_to_csv
FinishTick ==
    /\ pc = "ping"
    /\ LET point == collect_data_point(wifi_info, env)
           pinged == PingInvoked(wifi_info)
           after == IF pinged THEN now + env.pingTime ELSE now
           cmds == IF pinged THEN cmdlog \o <<"ping">> ELSE cmdlog
           due == PeriodicSaveDue(interval_counter + 1)
       IN
        /\ data_point' = point
        /\ results' = results_append(results, point)
        /\ interval_counter' = interval_counter + 1
        /\ now' = after
        /\ cmdlog' = cmds
        /\ ticklog' = Append(ticklog, [start |-> current_time, cmds |-> cmds,
                                       finish |-> after])
        /\ IF due
           THEN \E w \in save_to_csv(results', csv_file, env.disk) :
                  /\ csv_file' = w.file
                  /\ flushlog' = Append(flushlog,
                        [at |-> "loop", tick |-> interval_counter + 1,
                         raised |-> w.raised])
                  /\ IF w.raised
                     THEN exc' = Append(exc, "OSError") /\ pc' = "finally_save"
                     ELSE exc' = exc /\ pc' = "pace"
           ELSE /\ pc' = "pace"
                /\ UNCHANGED <<csv_file, flushlog, exc>>
    /\ UNCHANGED <<cfgVars, running, start_time, end_time, current_time,
                   wifi_info, wake_time, env, env_changes, summary,
                   summary_calls, stop_req>>

\* a full interval of sleep after every tick, whatever the tick's work took
sleep_time_FullInterval(next_time, t) == ping_interval

\* no sleep at all between ticks
sleep_time_None(next_time, t) == 0

\* sleep_time = max(0, next_time - time.time())
sleep_time(next_time, t) == IF next_time - t > 0 THEN next_time - t ELSE 0

\* next_time = current_time + self.ping_interval, current_time being the time
\* read at the top of this iteration;
\* if sleep_time > 0 and self.running: time.sleep(sleep_time)
Pace ==
    /\ pc = "pace"
    /\ LET next_time == current_time + ping_interval
       IN  IF sleep_time(next_time, now) > 0 /\ running
           THEN pc' = "sleeping" /\ wake_time' = now + sleep_time(next_time, now)
           ELSE pc' = "test" /\ UNCHANGED wake_time
    /\ UNCHANGED <<cfgVars, results, running, start_time, end_time,
                   interval_counter, current_time, wifi_info, data_point, exc,
                   now, env, env_changes, csv_file, summary, cmdlog, ticklog,
                   flushlog, summary_calls, stop_req>>

\* a sleep that starts over when it is due, and so never returns
Wake_SleepsOn ==
    /\ pc = "sleeping"
    /\ now' = wake_time
    /\ pc' = "sleeping"
    /\ UNCHANGED <<cfgVars, results, running, start_time, end_time,
                   interval_counter, current_time, wifi_info, data_point,
                   wake_time, exc, env, env_changes, csv_file, summary, cmdlog,
                   ticklog, flushlog, summary_calls, stop_req>>

\* time.sleep returns; a signal handled meanwhile does not shorten it
Wake ==
    /\ pc = "sleeping"
    /\ now' = wake_time
    /\ pc' = "test"
    /\ UNCHANGED <<cfgVars, results, running, start_time, end_time,
                   interval_counter, current_time, wifi_info, data_point,
                   wake_time, exc, env, env_changes, csv_file, summary, cmdlog,
                   ticklog, flushlog, summary_calls, stop_req>>

\* finally: self.save_to_csv(); an error here skips generate_summary
FinallySave ==
    /\ pc = "finally_save"
    /\ \E w \in save_to_csv(results, csv_file, env.disk) :
        /\ csv_file' = w.file
        /\ flushlog' = Append(flushlog,
              [at |-> "finally", tick |-> interval_counter, raised |-> w.raised])
        /\ IF w.raised
           THEN exc' = Append(exc, "OSError") /\ pc' = "done"
           ELSE exc' = exc /\ pc' = "finally_summary"
    /\ UNCHANGED <<cfgVars, results, running, start_time, end_time,
                   interval_counter, current_time, wifi_info, data_point,
                   wake_time, now, env, env_changes, summary, cmdlog, ticklog,
                   summary_calls, stop_req>>

\* finally: self.generate_summary(); then the pending exception, if any, leaves
FinallySummary ==
    /\ pc = "finally_summary"
    /\ summary' = generate_summary(results)
    /\ summary_calls' = summary_calls + 1
    /\ pc' = "done"
    /\ UNCHANGED <<cfgVars, results, running, start_time, end_time,
                   interval_counter, current_time, wifi_info, data_point,
                   wake_time, exc, now, env, env_changes, csv_file, cmdlog,
                   ticklog, flushlog, stop_req>>

\* whether a tick's collection is under way
InFlight == pc \in {"wifi", "ping"}

\* a handler that ends the tick under way, as the default SIGINT handler does
signal_handler_Interrupts ==
    /\ pc \notin {"idle", "done"}
    /\ ~stop_req.requested
    /\ running' = FALSE
    /\ pc' = IF InFlight THEN "finally_save" ELSE pc
    /\ stop_req' = [requested |-> TRUE, len |-> Len(results),
                    inflight |-> InFlight,
                    due |-> IF pc = "sleeping" THEN wake_time ELSE now]
    /\ UNCHANGED <<cfgVars, results, start_time, end_time, interval_counter,
                   current_time, wifi_info, data_point, wake_time, exc,
                   now, env, env_changes, csv_file, summary, cmdlog, ticklog,
                   flushlog, summary_calls>>

\* SIGINT while start_monitoring runs: self.running = False
signal_handler ==
    /\ pc \notin {"idle", "done"}
    /\ ~stop_req.requested
    /\ running' = FALSE
    /\ stop_req' = [requested |-> TRUE, len |-> Len(results),
                    inflight |-> InFlight,
                    due |-> IF pc = "sleeping" THEN wake_time ELSE now]
    /\ UNCHANGED <<cfgVars, results, start_time, end_time, interval_counter,
                   current_time, wifi_info, data_point, wake_time, pc, exc,
                   now, env, env_changes, csv_file, summary, cmdlog, ticklog,
                   flushlog, summary_calls>>

\* the network or the disk changes state.  The program sees the environment
\* only when it runs a command or writes the file, so a change at any other
\* moment is the same as a change right before the next of these.
EnvChange ==
    /\ pc \in {"wifi", "ping", "finally_save"}
    /\ env_changes < MaxEnvChanges
    /\ env' \in Envs \ {env}
    /\ env_changes' = env_changes + 1
    /\ UNCHANGED <<cfgVars, results, running, start_time, end_time,
                   interval_counter, current_time, wifi_info, data_point,
                   wake_time, pc, exc, now, csv_file, summary, cmdlog, ticklog,
                   flushlog, summary_calls, stop_req>>

Next ==
    \/ Start
    \/ LoopTest
    \/ GetWifiInfo
    \/ FinishTick
    \/ Pace
    \/ Wake
    \/ FinallySave
    \/ FinallySummary
    \/ signal_handler
    \/ EnvChange

Spec == Init /\ [][Next]_vars

\* the sessions of half a minute only
InitShort == Init /\ duration_seconds = 30

SpecShort == InitShort /\ [][Next]_vars

\* the steps of the thread that runs start_monitoring
MainThread ==
    \/ Start
    \/ LoopTest
    \/ GetWifiInfo
    \/ FinishTick
    \/ Pace
    \/ Wake
    \/ FinallySave
    \/ FinallySummary

(***************************************************************************)
(* Sessions of two and three minutes in an environment that stays as it is *)
(* from start to end: 24 and 36 ticks at the default interval, fewer at a   *)
(* longer one or when the commands are slow; the loop saves more than once. *)
(***************************************************************************)
LongDurations == {120, 180}
\* the default interval and one that divides neither duration
LongIntervals == {DefaultPingInterval, 7}

InitLong ==
    /\ duration_seconds \in LongDurations
    /\ ping_interval \in LongIntervals
    /\ glitch_threshold_latency_ms = DefaultLatencyThreshold
    /\ glitch_threshold_packet_loss = DefaultPacketLossThreshold
    /\ glitch_threshold_rssi_dbm = DefaultRssiThreshold
    /\ results = <<>>
    /\ data_point = NoInfo
    /\ pc = "idle"
    /\ env \in Envs
    /\ InitRest

NextSteady ==
    \/ Start
    \/ LoopTest
    \/ GetWifiInfo
    \/ FinishTick
    \/ Pace
    \/ Wake
    \/ FinallySave
    \/ FinallySummary
    \/ signal_handler

SpecLong == InitLong /\ [][NextSteady]_vars

\* Sessions of half a minute and one minute in a steady environment, under the
\* assumption that the thread keeps running: every command it runs returns,
\* every file operation returns or raises, and the clock reaches the time a
\* sleep ends at.  Nothing is assumed about stop requests.
FairSpecSteady == Init /\ [][NextSteady]_vars /\ WF_vars(MainThread)

(***************************************************************************)
(* generate_summary on its own: every results list of up to MaxSummaryLen  *)
(* samples that collect_data_point can produce (the link query and the     *)
(* probe may see different environments).                                  *)
(***************************************************************************)
ProducibleSamples ==
    {collect_data_point(get_current_wifi_info(e1, 0).info, e2) :
        e1 \in {e \in AllEnvs : ~get_current_wifi_info(e, 0).raised},
        e2 \in AllEnvs}

RECURSIVE SeqsUpTo(_, _)
SeqsUpTo(S, n) ==
    IF n = 0 THEN {<<>>}
    ELSE LET shorter == SeqsUpTo(S, n - 1)
         IN  shorter \cup {Append(q, x) : q \in shorter, x \in S}

InitSummary ==
    /\ duration_seconds = 60
    /\ ping_interval = DefaultPingInterval
    /\ glitch_threshold_latency_ms = DefaultLatencyThreshold
    /\ glitch_threshold_packet_loss = DefaultPacketLossThreshold
    /\ glitch_threshold_rssi_dbm = DefaultRssiThreshold
    /\ results \in SeqsUpTo(ProducibleSamples, MaxSummaryLen)
    /\ data_point = NoInfo
    /\ pc = "summarize"
    /\ env = EnvGood
    /\ InitRest

Summarize ==
    /\ pc = "summarize"
    /\ summary' = generate_summary(results)
    /\ summary_calls' = summary_calls + 1
    /\ pc' = "summarized"
    /\ UNCHANGED <<cfgVars, results, running, start_time, end_time,
                   interval_counter, current_time, wifi_info, data_point,
                   wake_time, exc, now, env, env_changes, csv_file, cmdlog,
                   ticklog, flushlog, stop_req>>

SpecSummary == InitSummary /\ [][Summarize]_vars

(***************************************************************************)
(* generate_summary on results lists of up to MaxRssiLen samples taken at   *)
(* the signal strengths -50, -60 and -70 dBm, with no link, and with a link *)
(* whose signal strength wdutil does not report.                            *)
(***************************************************************************)
EnvAtRssi(tok) == [EnvGood EXCEPT !.wd.rssi = tok]

RssiEnvs == {EnvAtRssi(<<"-", "5", "0">>), EnvAtRssi(<<"-", "6", "0">>),
             EnvAtRssi(<<"-", "7", "0">>), EnvAtRssi(<<>>), EnvDown}

RssiSamples ==
    {collect_data_point(get_current_wifi_info(e, 0).info, e) : e \in RssiEnvs}

InitRssi ==
    /\ duration_seconds = 60
    /\ ping_interval = DefaultPingInterval
    /\ glitch_threshold_latency_ms = DefaultLatencyThreshold
    /\ glitch_threshold_packet_loss = DefaultPacketLossThreshold
    /\ glitch_threshold_rssi_dbm = DefaultRssiThreshold
    /\ results \in SeqsUpTo(RssiSamples, MaxRssiLen)
    /\ data_point = NoInfo
    /\ pc = "summarize"
    /\ env = EnvGood
    /\ InitRest

SpecRssi == InitRssi /\ [][Summarize]_vars

(***************************************************************************)
(* get_current_wifi_info on its own: one call, for every combination of    *)
(* what networksetup reports and which lines wdutil prints.                 *)
(***************************************************************************)
PrimaryOutputs == {[matched |-> TRUE, ssid |-> "home"],
                   [matched |-> TRUE, ssid |-> ""],
                   [matched |-> FALSE, ssid |-> ""]}

WdOutputs ==
    [ssid : {"", "cafe"},
     rssi : {<<>>, <<"-", "6", "5">>, <<"-">>},
     signal : {<<>>, <<"-", "7", "5">>},
     noise : {<<>>, <<"-", "9", "0">>},
     txrate : {<<>>, <<"8", "6", "6">>, <<"1", ".", "2", ".", "3">>},
     lasttx : {<<>>, <<"5", "4">>}]

LinkEnvs == {[EnvGood EXCEPT !.primary = p, !.wd = w] :
                p \in PrimaryOutputs, w \in WdOutputs}

InitLinkInfo ==
    /\ duration_seconds = 60
    /\ ping_interval = DefaultPingInterval
    /\ glitch_threshold_latency_ms = DefaultLatencyThreshold
    /\ glitch_threshold_packet_loss = DefaultPacketLossThreshold
    /\ glitch_threshold_rssi_dbm = DefaultRssiThreshold
    /\ results = <<>>
    /\ data_point = NoInfo
    /\ pc = "query"
    /\ env \in LinkEnvs
    /\ InitRest

\* wifi_info = self.get_current_wifi_info()
QueryLinkInfo ==
    /\ pc = "query"
    /\ LET r == get_current_wifi_info(env, now) IN
        /\ cmdlog' = r.cmds
        /\ IF r.raised
           THEN exc' = Append(exc, "ValueError") /\ UNCHANGED wifi_info
           ELSE wifi_info' = r.info /\ UNCHANGED exc
    /\ pc' = "queried"
    /\ UNCHANGED <<cfgVars, results, running, start_time, end_time,
                   interval_counter, current_time, data_point, wake_time, now,
                   env, env_changes, csv_file, summary, ticklog, flushlog,
                   summary_calls, stop_req>>

SpecLinkInfo == InitLinkInfo /\ [][QueryLinkInfo]_vars

(***************************************************************************)
(* save_to_csv on its own: called up to MaxSaveCalls times in a row on a   *)
(* results list of up to MaxSaveLen samples, the output file absent or left *)
(* by an earlier run, the disk good or bad.                                 *)
(***************************************************************************)
SaveSamples ==
    {collect_data_point(get_current_wifi_info(e, 0).info, e) :
        e \in {EnvGood, EnvDown, EnvWeak}}

\* an output file left under the same name by an earlier session
OldFile ==
    LET old == collect_data_point(get_current_wifi_info(EnvSlow, 0).info, EnvSlow)
    IN  [exists |-> TRUE, header |-> DOMAIN old, rows |-> <<old, old>>]

InitSave ==
    /\ duration_seconds = 60
    /\ ping_interval = DefaultPingInterval
    /\ glitch_threshold_latency_ms = DefaultLatencyThreshold
    /\ glitch_threshold_packet_loss = DefaultPacketLossThreshold
    /\ glitch_threshold_rssi_dbm = DefaultRssiThreshold
    /\ results \in SeqsUpTo(SaveSamples, MaxSaveLen)
    /\ data_point = NoInfo
    /\ pc = "save"
    /\ env \in {EnvGood, EnvDiskBad}
    /\ running = FALSE
    /\ start_time = 0
    /\ end_time = 0
    /\ interval_counter = 0
    /\ current_time = 0
    /\ wifi_info = NoInfo
    /\ wake_time = 0
    /\ exc = <<>>
    /\ now = 0
    /\ env_changes = 0
    /\ csv_file \in {NoFile, OldFile}
    /\ summary = NoSummary
    /\ cmdlog = <<>>
    /\ ticklog = <<>>
    /\ flushlog = <<>>
    /\ summary_calls = 0
    /\ stop_req = NoStop

\* self.save_to_csv()
SaveCall ==
    /\ pc = "save"
    /\ Len(flushlog) < MaxSaveCalls
    /\ \E w \in save_to_csv(results, csv_file, env.disk) :
        /\ csv_file' = w.file
        /\ flushlog' = Append(flushlog,
              [at |-> "call", tick |-> Len(results), raised |-> w.raised])
        /\ exc' = IF w.raised THEN Append(exc, "OSError") ELSE exc
    /\ UNCHANGED <<cfgVars, results, running, start_time, end_time,
                   interval_counter, current_time, wifi_info, data_point,
                   wake_time, pc, now, env, env_changes, summary, cmdlog,
                   ticklog, summary_calls, stop_req>>

SpecSave == InitSave /\ [][SaveCall]_vars

(***************************************************************************)
(* detect_glitches on its own: any data point, any thresholds.             *)
(***************************************************************************)
LatencyThresholds == {DefaultLatencyThreshold, 50}
PacketLossThresholds == {DefaultPacketLossThreshold, 0}
RssiThresholds == {DefaultRssiThreshold, -60}

DataPoints ==
    {MergeDataPoint(
        [timestamp |-> 0, ssid |-> "home", rssi_dbm |-> r, noise_dbm |-> 0,
         tx_rate_mbps |-> 0, connected |-> c],
        [min_latency_ms |-> a, avg_latency_ms |-> a, max_latency_ms |-> a,
         stddev_latency_ms |-> 0, packet_loss_percent |-> l, success |-> ok]) :
        r \in {-80, -70, -65, -60, 0}, c \in BOOLEAN,
        a \in {0, 50, 100, 101}, l \in {0, 10, 11, 100}, ok \in BOOLEAN}

InitClassify ==
    /\ duration_seconds = 60
    /\ ping_interval = DefaultPingInterval
    /\ glitch_threshold_latency_ms \in LatencyThresholds
    /\ glitch_threshold_packet_loss \in PacketLossThresholds
    /\ glitch_threshold_rssi_dbm \in RssiThresholds
    /\ results = <<>>
    /\ data_point \in DataPoints
    /\ pc = "classify"
    /\ env = EnvGood
    /\ InitRest

\* glitches = self.detect_glitches(data_point); data_point.update(glitches)
Classify ==
    /\ pc = "classify"
    /\ data_point' = UpdateWithGlitches(data_point, detect_glitches(data_point))
    /\ pc' = "classified"
    /\ UNCHANGED <<cfgVars, results, running, start_time, end_time,
                   interval_counter, current_time, wifi_info, wake_time, exc,
                   now, env, env_changes, csv_file, summary, cmdlog, ticklog,
                   flushlog, summary_calls, stop_req>>

SpecClassify == InitClassify /\ [][Classify]_vars

(***************************************************************************)
(* Properties.                                                             *)
(***************************************************************************)
Range(q) == {q[i] : i \in 1..Len(q)}

\* the save_to_csv calls made from the finally block
FinalSaves == {i \in 1..Len(flushlog) : flushlog[i].at = "finally"}
\* the save_to_csv calls made from inside the loop
LoopSaves == {i \in 1..Len(flushlog) : flushlog[i].at = "loop"}

\* no command took any time in any tick of the session
ZeroWork == \A i \in 1..Len(ticklog) : ticklog[i].finish = ticklog[i].start

\* C1 (as claimed, on the exit path by a failed periodic save): when a periodic
\* save_to_csv inside the loop has raised and start_monitoring has ended,
\* finalization has run exactly once: one save_to_csv from the finally block,
\* completed, followed by one generate_summary.
C1_FinalizationAfterFailedSave ==
    (pc = "done" /\ \E i \in LoopSaves : flushlog[i].raised) =>
        /\ Cardinality(FinalSaves) = 1
        /\ \A i \in FinalSaves : ~flushlog[i].raised
        /\ summary_calls = 1
        /\ summary # NoSummary

\* C2: every sample in results with connected = false has ping_success =
\* false, all four latencies 0 and packet_loss_percent = 100, and ping was not
\* run in the tick that produced it.
C2_DisconnectedSample ==
    /\ Len(ticklog) = Len(results)
    /\ \A i \in 1..Len(results) :
        ~results[i].connected =>
            /\ results[i].ping_success = FALSE
            /\ results[i].min_latency_ms = 0
            /\ results[i].avg_latency_ms = 0
            /\ results[i].max_latency_ms = 0
            /\ results[i].stddev_latency_ms = 0
            /\ results[i].packet_loss_percent = 100
            /\ "ping" \notin Range(ticklog[i].cmds)

C2_Witness ==
    \E i \in 1..Len(results) :
        ~results[i].connected /\ "getairportnetwork" \in Range(ticklog[i].cmds)

\* a stop request that arrived with k >= 1 ticks completed, none under way,
\* and the next tick still due before the end time
StoppedMidDuration ==
    /\ stop_req.requested
    /\ ~stop_req.inflight
    /\ stop_req.len >= 1
    /\ stop_req.due < end_time

\* C3: when the stop request arrives mid-duration after exactly k ticks have
\* completed and the final write does not fail, the session ends stopped
\* early (running = false, end time not reached) with exactly k samples in
\* results, the file holds exactly those k rows, and the summary reports a
\* total of k samples.
C3_StopAfterKTicks ==
    (pc = "done" /\ StoppedMidDuration /\ exc = <<>>) =>
        /\ running = FALSE
        /\ now < end_time
        /\ Len(results) = stop_req.len
        /\ csv_file.exists
        /\ csv_file.rows = results
        /\ Len(csv_file.rows) = stop_req.len
        /\ summary.kind = "stats"
        /\ summary.total_samples = stop_req.len

\* the spec's scenario: 30 s, every 5 s, stopped after 4 ticks
C3_Witness ==
    /\ pc = "done"
    /\ StoppedMidDuration
    /\ exc = <<>>
    /\ duration_seconds = 30
    /\ ping_interval = 5
    /\ stop_req.len = 4
    /\ summary.kind = "stats"

\* C4: a stop request never interrupts or discards the collection under way:
\* at most one sample is appended after it; none if no tick was under way
\* (no further tick starts); and if a tick was under way, its sample is
\* appended, classified, as soon as the tick is over, unless the tick's own
\* collection raised.
C4_StopDoesNotInterrupt ==
    stop_req.requested =>
        /\ running = FALSE
        /\ Len(results) <= stop_req.len + 1
        /\ ~stop_req.inflight => Len(results) = stop_req.len
        /\ (stop_req.inflight /\ ~InFlight /\ "ValueError" \notin Range(exc)) =>
              /\ Len(results) = stop_req.len + 1
              /\ results[Len(results)].any_glitch \in BOOLEAN
              /\ results[Len(results)].timestamp = ticklog[Len(results)].start

C4_Witness ==
    /\ stop_req.requested
    /\ stop_req.inflight
    /\ pc = "done"
    /\ Len(results) = stop_req.len + 1
    /\ stop_req.len >= 1

\* C5: with zero collection time, no stop request and no error, a session whose
\* interval divides its duration ends with exactly duration/interval samples;
\* the loop saves once per 12 completed ticks and finalization saves once; for
\* 30 s every 5 s that is 6 samples, no save in the loop and exactly one save,
\* the one of finalization.
C5_TickCount ==
    (/\ pc = "done"
     /\ ~stop_req.requested
     /\ exc = <<>>
     /\ ZeroWork
     /\ duration_seconds % ping_interval = 0) =>
        /\ Len(results) = duration_seconds \div ping_interval
        /\ Cardinality(LoopSaves) = Len(results) \div 12
        /\ Cardinality(FinalSaves) = 1
        /\ (duration_seconds = 30 /\ ping_interval = 5) =>
              /\ Len(results) = 6
              /\ LoopSaves = {}
              /\ Len(flushlog) = 1
              /\ csv_file.rows = results

C5_Witness ==
    /\ pc = "done"
    /\ ~stop_req.requested
    /\ exc = <<>>
    /\ ZeroWork
    /\ duration_seconds = 30
    /\ ping_interval = 5
    /\ Len(results) = 6
    /\ Len(flushlog) = 1

\* whether fraction m is the mean of field f over the samples of q (q not empty)
IsMeanOf(m, q, f) == m.den > 0 /\ m.num * Len(q) = SumOf(q, f) * m.den

\* C6 (as claimed): for every non-empty results with at least one connected
\* sample, avg_packet_loss is the mean of packet_loss_percent over the
\* connected samples, also when no sample has ping_success = true.
C6_AvgPacketLossOverConnected ==
    (pc = "summarized" /\ Where(results, "connected") # <<>>) =>
        IsMeanOf(summary.avg_packet_loss, Where(results, "connected"),
                 "packet_loss_percent")

\* C6 (amended): for every non-empty results with at least one connected
\* sample, avg_packet_loss is the mean of packet_loss_percent over the
\* connected samples if some sample has ping_success = true, and 100 if none
\* has.
C6_AvgPacketLossAmended ==
    (pc = "summarized" /\ Where(results, "connected") # <<>>) =>
        IF \E i \in 1..Len(results) : results[i].ping_success
        THEN IsMeanOf(summary.avg_packet_loss, Where(results, "connected"),
                      "packet_loss_percent")
        ELSE summary.avg_packet_loss = [num |-> 100, den |-> 1]

\* a disconnected sample next to connected ones, one of them probed with success
C6_Witness ==
    /\ pc = "summarized"
    /\ \E i, j, k \in 1..Len(results) :
          /\ ~results[i].connected
          /\ results[j].connected /\ results[j].ping_success
          /\ results[k].connected /\ ~results[k].ping_success
    /\ summary.avg_packet_loss # [num |-> 100, den |-> 1]

\* C7: detect_glitches sets each flag by its own rule, for every data point and
\* thresholds, and leaves the measured fields alone; a connected data point with
\* RSSI -65 (threshold -70) and packet loss 100 (threshold 10) gets
\* signal_strength_glitch = false, packet_loss_glitch = true, any_glitch = true.
C7_GlitchRules ==
    pc = "classified" =>
        /\ data_point.latency_glitch =
              (data_point.ping_success /\
               data_point.avg_latency_ms > glitch_threshold_latency_ms)
        /\ data_point.packet_loss_glitch =
              (data_point.packet_loss_percent > glitch_threshold_packet_loss)
        /\ data_point.signal_strength_glitch =
              (data_point.rssi_dbm < glitch_threshold_rssi_dbm)
        /\ data_point.connection_glitch = ~data_point.connected
        /\ [f \in DOMAIN data_point \ DOMAIN detect_glitches(data_point) |->
               data_point[f]] \in DataPoints
        /\ (/\ data_point.connected
            /\ data_point.rssi_dbm = -65
            /\ glitch_threshold_rssi_dbm = -70
            /\ data_point.packet_loss_percent = 100
            /\ glitch_threshold_packet_loss = 10) =>
              /\ ~data_point.signal_strength_glitch
              /\ data_point.packet_loss_glitch
              /\ data_point.any_glitch

\* a disconnected data point flagged for its packet loss, and nothing else but
\* the missing connection
C7_Witness ==
    /\ pc = "classified"
    /\ ~data_point.connected
    /\ data_point.packet_loss_glitch
    /\ ~data_point.latency_glitch
    /\ ~data_point.signal_strength_glitch

\* C8: every sample in results has any_glitch = latency_glitch or
\* packet_loss_glitch or signal_strength_glitch or connection_glitch.
C8_AnyGlitchIsOr ==
    \A i \in 1..Len(results) :
        results[i].any_glitch =
            (\/ results[i].latency_glitch
             \/ results[i].packet_loss_glitch
             \/ results[i].signal_strength_glitch
             \/ results[i].connection_glitch)

\* a sample with no glitch and samples with one
C8_Witness ==
    \E i, j \in 1..Len(results) :
        /\ ~results[i].any_glitch
        /\ results[j].any_glitch /\ results[j].latency_glitch

\* C9 (as claimed): no provider or prober failure, a matched label with a
\* malformed value included, ever leaves collect_data_point: every tick that
\* started has appended its sample once its collection is over, and no
\* ValueError is ever raised.
C9_CollectionNeverRaises ==
    /\ "ValueError" \notin Range(exc)
    /\ pc \in {"pace", "sleeping", "test", "finally_save", "finally_summary",
               "done"} => Len(results) = interval_counter

\* C10: avg_latency is the mean of avg_latency_ms over exactly the samples with
\* ping_success = true, and 0 when there is none.
C10_AvgLatency ==
    (pc = "summarized" /\ results # <<>>) =>
        IF Where(results, "ping_success") # <<>>
        THEN IsMeanOf(summary.avg_latency, Where(results, "ping_success"),
                      "avg_latency_ms")
        ELSE summary.avg_latency = [num |-> 0, den |-> 1]

\* connected samples with and without a successful probe, and a disconnected one
C10_Witness ==
    /\ pc = "summarized"
    /\ \E i, j, k \in 1..Len(results) :
          /\ ~results[i].connected
          /\ results[j].connected /\ results[j].ping_success
          /\ results[k].connected /\ ~results[k].ping_success
    /\ summary.avg_latency.num > 0
    /\ summary.avg_latency # AvgLatency_OverConnected(results)

\* C11: avg_rssi is the mean of rssi_dbm over the connected samples only (0
\* when none is connected) and connected_percentage is 100 * connected / total;
\* three connected samples at -50, -60 and -70 dBm and one disconnected sample
\* give avg_rssi = -60 and connected_percentage = 75.
C11_AvgRssiOverConnected ==
    (pc = "summarized" /\ results # <<>>) =>
        LET connected == {i \in 1..Len(results) : results[i].connected}
            rssi(v) == {i \in connected : results[i].rssi_dbm = v}
        IN  /\ IF connected # {}
               THEN IsMeanOf(summary.avg_rssi, Where(results, "connected"),
                             "rssi_dbm")
               ELSE summary.avg_rssi = [num |-> 0, den |-> 1]
            /\ summary.connected_percentage.den > 0
            /\ summary.connected_percentage.num * Len(results) =
                  100 * Cardinality(connected) * summary.connected_percentage.den
            /\ (/\ Len(results) = 4
                /\ Cardinality(connected) = 3
                /\ \A v \in {-50, -60, -70} : Cardinality(rssi(v)) = 1) =>
                  /\ summary.avg_rssi = [num |-> -60, den |-> 1]
                  /\ summary.connected_percentage = [num |-> 75, den |-> 1]

\* the scenario itself, summarized
C11_Witness ==
    /\ pc = "summarized"
    /\ Len(results) = 4
    /\ \E i \in 1..4 : ~results[i].connected
    /\ \A v \in {-50, -60, -70} :
          \E i \in 1..4 : results[i].connected /\ results[i].rssi_dbm = v
    /\ summary.avg_rssi = [num |-> -60, den |-> 1]
    /\ summary.connected_percentage = [num |-> 75, den |-> 1]

\* the later of two times
Later(a, b) == IF a >= b THEN a ELSE b
\* the time tick i spent collecting
Work(i) == ticklog[i].finish - ticklog[i].start
\* how long after start_time + (i - 1) * interval tick i started
Lateness(i) == ticklog[i].start - start_time - (i - 1) * ping_interval
\* whether tick i started on the schedule start_time + k * interval
OnSchedule(i) == (ticklog[i].start - start_time) % ping_interval = 0

\* C12 (as claimed): a tick sleeps only the interval minus its work (nothing
\* when the work took an interval or more), and ticks keep to the absolute
\* schedule start_time + k * interval: a tick may start late only right after
\* a tick whose work exceeded the interval, and the ticks after it are back on
\* the schedule.
C12_AbsoluteSchedule ==
    /\ pc = "sleeping" => wake_time - now = ping_interval - (now - current_time)
    /\ \A i \in 1..Len(ticklog) :
          (i = 1 \/ Work(i - 1) <= ping_interval) => OnSchedule(i)

\* C12 (amended): a tick sleeps only the interval minus its work (nothing when
\* the work took an interval or more), so the next tick starts one interval
\* after this tick's start, or when this tick's work is over if that is later;
\* the schedule is relative to the previous tick's start, so the excess of a
\* tick whose work exceeded the interval is added to the lateness of the next
\* tick, and so of every later tick: lateness never shrinks.
C12_RelativePacing ==
    /\ pc = "sleeping" =>
          /\ wake_time - now = ping_interval - (now - current_time)
          /\ wake_time > now
    /\ \A i \in 1..Len(ticklog) - 1 :
          ticklog[i + 1].start =
              Later(ticklog[i].start + ping_interval, ticklog[i].finish)
    /\ \A i \in 1..Len(ticklog) - 1 :
          Lateness(i + 1) = Lateness(i) + Later(0, Work(i) - ping_interval)

\* a tick whose work exceeded the interval, then a tick on time whose successor
\* starts one interval after it and off the absolute schedule
C12_Witness ==
    \E i \in 1..Len(ticklog) - 2 :
        /\ Work(i) > ping_interval
        /\ Work(i + 1) < ping_interval
        /\ ticklog[i + 2].start = ticklog[i + 1].start + ping_interval
        /\ ~OnSchedule(i + 2)

\* whether sequence p is the beginning of sequence q
IsPrefix(p, q) == Len(p) <= Len(q) /\ p = SubSeq(q, 1, Len(p))

\* the last save_to_csv call has completed and nothing was appended since
SavedAndUnchanged ==
    /\ flushlog # <<>>
    /\ ~flushlog[Len(flushlog)].raised
    /\ flushlog[Len(flushlog)].tick = Len(results)

C14_ResultsAppendOnly ==
    [][/\ IsPrefix(results, results')
       /\ IF interval_counter' # interval_counter
          THEN /\ interval_counter' = interval_counter + 1
               /\ Len(results') = Len(results) + 1
               /\ results'[Len(results')] = data_point'
          ELSE results' = results]_vars

\* a session that has appended, saved in the loop, been stopped, saved again
\* and summarized
C14_Witness ==
    /\ pc = "done"
    /\ Len(results) >= 2
    /\ stop_req.requested
    /\ LoopSaves # {}
    /\ FinalSaves # {}
    /\ summary_calls = 1
    /\ results[1] # results[2]

\* C15: inside the loop save_to_csv is called exactly when the number of
\* completed ticks is a positive multiple of 12, once each time, and at no
\* other tick; the only other save_to_csv of a session is the one of the
\* finally block.
C15_PeriodicFlush ==
    /\ \A i \in LoopSaves : flushlog[i].tick > 0 /\ flushlog[i].tick % 12 = 0
    /\ \A k \in 1..Len(results) :
          k % 12 = 0 => \E i \in LoopSaves : flushlog[i].tick = k
    /\ \A i, j \in LoopSaves : flushlog[i].tick = flushlog[j].tick => i = j
    /\ LoopSaves \cup FinalSaves = 1..Len(flushlog)
    /\ Cardinality(FinalSaves) <= 1
    /\ FinalSaves # {} <=> pc \in {"finally_summary", "done"}

\* ticks 12 and 24 saved, eleven more ticks completed without a save
C15_Witness ==
    /\ Len(results) = 35
    /\ {flushlog[i].tick : i \in LoopSaves} = {12, 24}
    /\ Len(flushlog) = 2

\* how many times "sudo wdutil info" was run in the call
WdutilCalls == Cardinality({i \in 1..Len(cmdlog) : cmdlog[i] = "wdutil"})

\* C16 (as claimed): in a call of get_current_wifi_info in which networksetup
\* reports a network, "sudo wdutil info" is not run.
C16_WdutilOnlyAsFallback ==
    (pc = "queried" /\ env.primary.matched) => WdutilCalls = 0

\* C16 (amended): "sudo wdutil info" is run to detect the association only
\* when networksetup reported no network, and is run once more, to read the
\* signal, noise and rate, whenever either of them found an association: once
\* when networksetup reports a network, twice when only wdutil sees one, once
\* when there is none.
C16_WdutilForDetailsToo ==
    pc = "queried" =>
        /\ SubSeq(cmdlog, 1, 2) = <<"listallhardwareports", "getairportnetwork">>
        /\ Len(cmdlog) = 2 + WdutilCalls
        /\ WdutilCalls = IF env.primary.matched THEN 1
                         ELSE IF env.wd.ssid # "" THEN 2 ELSE 1

\* networksetup reported the network and the signal strength came from wdutil
C16_Witness ==
    /\ pc = "queried"
    /\ env.primary.matched
    /\ wifi_info # NoInfo
    /\ wifi_info.ssid = "home"
    /\ wifi_info.rssi_dbm = -65
    /\ WdutilCalls = 1

\* C17: a save_to_csv call with no results leaves the file as it was, absent
\* or not, and does not raise; and a call that completes right after a call
\* that completed, nothing appended in between, leaves the file exactly as
\* the first call left it.
C17_SaveIdempotent ==
    [][flushlog' # flushlog =>
         /\ results = <<>> =>
               /\ csv_file' = csv_file
               /\ ~flushlog'[Len(flushlog')].raised
         /\ (/\ results' = results
             /\ flushlog # <<>>
             /\ ~flushlog[Len(flushlog)].raised
             /\ ~flushlog'[Len(flushlog')].raised) => csv_file' = csv_file]_vars

\* two completed calls in a row on the same two samples
C17_Witness ==
    /\ pc = "save"
    /\ Len(flushlog) = 2
    /\ ~flushlog[1].raised /\ ~flushlog[2].raised
    /\ Len(results) = 2
    /\ csv_file.rows = results

\* inside the loop of start_monitoring
InLoop == pc \in {"test", "wifi", "ping", "pace", "sleeping"}
\* in the finally block of start_monitoring, or past it
InFinalization == pc \in {"finally_save", "finally_summary", "done"}

\* C18: a session in its loop eventually leaves it, because the end time has
\* come or a stop was requested (or an error was raised), and then finalization
\* runs to its end; from finalization on no tick is run and nothing is
\* appended; and at the end, whether the loop ended by time or by a stop
\* request, save_to_csv has been called from the finally block exactly once
\* and generate_summary exactly once after it, unless that save raised.
C18_SessionTerminates ==
    /\ InLoop ~> pc = "finally_save"
    /\ pc = "finally_save" ~> pc = "done"
    /\ [][InFinalization =>
            /\ InFinalization'
            /\ results' = results
            /\ interval_counter' = interval_counter]_vars
    /\ [](pc = "finally_save" =>
            \/ ~running
            \/ now >= end_time
            \/ exc # <<>>)
    /\ [](pc = "done" =>
            /\ Cardinality(FinalSaves) = 1
            /\ flushlog[Len(flushlog)].at = "finally"
            /\ summary_calls = IF flushlog[Len(flushlog)].raised THEN 0 ELSE 1)

\* sessions ended by the end time and ended by a stop request, both finalized
C18_Witness ==
    /\ pc = "done"
    /\ summary_calls = 1
    /\ exc = <<>>
    /\ stop_req.requested
    /\ now < end_time
    /\ Len(results) >= 1

\* duration / interval, rounded up
MaxTicks == (duration_seconds + ping_interval - 1) \div ping_interval

\* C19: whatever the ticks' work took and whenever a stop is requested, a tick
\* starts at least one interval after the tick before it, the tick under way
\* included, so a session never has more than ceil(duration / interval)
\* samples.
C19_TickSpacing ==
    /\ \A i \in 1..Len(ticklog) - 1 :
          ticklog[i + 1].start - ticklog[i].start >= ping_interval
    /\ (InFlight /\ ticklog # <<>>) =>
          current_time - ticklog[Len(ticklog)].start >= ping_interval
    /\ Len(results) + (IF InFlight THEN 1 ELSE 0) <= MaxTicks

\* two minutes every 7 s, nothing slow: 18 samples, the last taken at 119 s
C19_Witness ==
    /\ pc = "done"
    /\ duration_seconds = 120
    /\ ping_interval = 7
    /\ Len(results) = 18
    /\ ticklog[18].start = start_time + 119

\* the samples in results that are not in the output file
Unflushed == Len(results) - Len(csv_file.rows)
\* no save_to_csv call has raised so far
NoWriteFailed == \A i \in 1..Len(flushlog) : ~flushlog[i].raised

\* C20: as long as no write has failed, at most 11 samples are missing from the
\* file between two steps of the loop, so at most 12 at any point of the loop
\* (the twelfth is saved in the iteration that appends it), and none once the
\* save of the finally block has completed.
C20_UnflushedBounded ==
    NoWriteFailed =>
        /\ Unflushed >= 0
        /\ (InLoop \/ pc = "finally_save") => Unflushed + 1 <= 12
        /\ pc \in {"finally_summary", "done"} =>
              /\ Unflushed = 0
              /\ csv_file.rows = results

\* eleven samples appended since the save after tick 12
C20_Witness ==
    /\ InLoop
    /\ NoWriteFailed
    /\ Len(flushlog) = 1
    /\ Len(csv_file.rows) = 12
    /\ Unflushed = 11

====
